---- MODULE Spec2Model ----
(***************************************************************************)
(* A model of xspf_to_m3u.py: the conversion of an XSPF track list into    *)
(* the lines of an M3U playlist (Extended, Minimal or Gonic).              *)
(*                                                                         *)
(* A Python string is a sequence of characters.  A character with a code   *)
(* from 32 to 126 is the one-character string of itself; every other       *)
(* character, and the grave accent, is the string "<U+XXXX>" of its code   *)
(* point in upper-case hexadecimal, four digits at least.  Splitting,      *)
(* joining, lower-casing, stripping, URL parsing and percent-decoding are  *)
(* computed character by character as Python computes them.                *)
(***************************************************************************)
EXTENDS Integers, Sequences, FiniteSets, TLC

\* ------------------------------------------------------------------------
\* Characters
\* ------------------------------------------------------------------------

\* The characters with codes 32..126, in code order.
AsciiPrintable ==
    <<" ", "!", "\"", "#", "$", "%", "&", "'", "(", ")", "*", "+",
      ",", "-", ".", "/", "0", "1", "2", "3", "4", "5", "6", "7",
      "8", "9", ":", ";", "<", "=", ">", "?", "@", "A", "B", "C",
      "D", "E", "F", "G", "H", "I", "J", "K", "L", "M", "N", "O",
      "P", "Q", "R", "S", "T", "U", "V", "W", "X", "Y", "Z", "[",
      "\\", "]", "^", "_", "<U+0060>", "a", "b", "c", "d", "e", "f", "g",
      "h", "i", "j", "k", "l", "m", "n", "o", "p", "q", "r", "s",
      "t", "u", "v", "w", "x", "y", "z", "{", "|", "}", "~">>

HexUpper == <<"0","1","2","3","4","5","6","7","8","9","A","B","C","D","E","F">>

\* n in upper-case hexadecimal, w digits at least
RECURSIVE HexStr(_, _)
HexStr(n, w) ==
    IF n = 0 /\ w <= 0 THEN ""
    ELSE HexStr(n \div 16, w - 1) \o HexUpper[(n % 16) + 1]

\* chr(n): the character with code point n
Chr(n) ==
    IF 32 <= n /\ n <= 126 THEN AsciiPrintable[n - 31]
    ELSE "<U+" \o HexStr(n, 4) \o ">"

Range(s) == {s[k] : k \in 1..Len(s)}

\* the code points of a list of ranges <<first, last>>
CodesOf(ranges) == UNION {r[1]..r[2] : r \in Range(ranges)}

\* the characters of a set of code points
CharsOf(codes) == {Chr(n) : n \in codes}

\* c.isascii()
AsciiChars == CharsOf(0..127)

\* the characters str.isspace() is true of, which str.strip() removes
Whitespace ==
    CharsOf((9..13) \cup (28..32) \cup {133, 160, 5760} \cup (8192..8202)
            \cup {8232, 8233, 8239, 8287, 12288})

\* ASCII letters and digits
AsciiLetters == CharsOf((65..90) \cup (97..122))

AsciiDigits == CharsOf(48..57)

DigitChars == <<"0","1","2","3","4","5","6","7","8","9">>

\* ------------------------------------------------------------------------
\* The Unicode tables str.lower() and int() read
\* ------------------------------------------------------------------------

\* str.lower() of one character, for every character it changes into one
\* other character: <<first, last, step, delta>> stands for the code points
\* first, first + step, ..., last, each lower-casing to itself plus delta.
LowerRuns ==
    <<<<65,90,1,32>>, <<192,214,1,32>>, <<216,222,1,32>>, <<256,302,2,1>>,
      <<306,310,2,1>>, <<313,327,2,1>>, <<330,374,2,1>>, <<376,376,1,-121>>,
      <<377,381,2,1>>, <<385,385,1,210>>, <<386,388,2,1>>, <<390,390,1,206>>,
      <<391,391,1,1>>, <<393,394,1,205>>, <<395,395,1,1>>, <<398,398,1,79>>,
      <<399,399,1,202>>, <<400,400,1,203>>, <<401,401,1,1>>, <<403,403,1,205>>,
      <<404,404,1,207>>, <<406,406,1,211>>, <<407,407,1,209>>, <<408,408,1,1>>,
      <<412,412,1,211>>, <<413,413,1,213>>, <<415,415,1,214>>, <<416,420,2,1>>,
      <<422,422,1,218>>, <<423,423,1,1>>, <<425,425,1,218>>, <<428,428,1,1>>,
      <<430,430,1,218>>, <<431,431,1,1>>, <<433,434,1,217>>, <<435,437,2,1>>,
      <<439,439,1,219>>, <<440,440,1,1>>, <<444,444,1,1>>, <<452,452,1,2>>,
      <<453,453,1,1>>, <<455,455,1,2>>, <<456,456,1,1>>, <<458,458,1,2>>,
      <<459,475,2,1>>, <<478,494,2,1>>, <<497,497,1,2>>, <<498,500,2,1>>,
      <<502,502,1,-97>>, <<503,503,1,-56>>, <<504,542,2,1>>, <<544,544,1,-130>>,
      <<546,562,2,1>>, <<570,570,1,10795>>, <<571,571,1,1>>, <<573,573,1,-163>>,
      <<574,574,1,10792>>, <<577,577,1,1>>, <<579,579,1,-195>>, <<580,580,1,69>>,
      <<581,581,1,71>>, <<582,590,2,1>>, <<880,882,2,1>>, <<886,886,1,1>>,
      <<895,895,1,116>>, <<902,902,1,38>>, <<904,906,1,37>>, <<908,908,1,64>>,
      <<910,911,1,63>>, <<913,929,1,32>>, <<932,939,1,32>>, <<975,975,1,8>>,
      <<984,1006,2,1>>, <<1012,1012,1,-60>>, <<1015,1015,1,1>>, <<1017,1017,1,-7>>,
      <<1018,1018,1,1>>, <<1021,1023,1,-130>>, <<1024,1039,1,80>>, <<1040,1071,1,32>>,
      <<1120,1152,2,1>>, <<1162,1214,2,1>>, <<1216,1216,1,15>>, <<1217,1229,2,1>>,
      <<1232,1326,2,1>>, <<1329,1366,1,48>>, <<4256,4293,1,7264>>, <<4295,4295,1,7264>>,
      <<4301,4301,1,7264>>, <<5024,5103,1,38864>>, <<5104,5109,1,8>>,
      <<7312,7354,1,-3008>>, <<7357,7359,1,-3008>>, <<7680,7828,2,1>>,
      <<7838,7838,1,-7615>>, <<7840,7934,2,1>>, <<7944,7951,1,-8>>, <<7960,7965,1,-8>>,
      <<7976,7983,1,-8>>, <<7992,7999,1,-8>>, <<8008,8013,1,-8>>, <<8025,8031,2,-8>>,
      <<8040,8047,1,-8>>, <<8072,8079,1,-8>>, <<8088,8095,1,-8>>, <<8104,8111,1,-8>>,
      <<8120,8121,1,-8>>, <<8122,8123,1,-74>>, <<8124,8124,1,-9>>, <<8136,8139,1,-86>>,
      <<8140,8140,1,-9>>, <<8152,8153,1,-8>>, <<8154,8155,1,-100>>, <<8168,8169,1,-8>>,
      <<8170,8171,1,-112>>, <<8172,8172,1,-7>>, <<8184,8185,1,-128>>,
      <<8186,8187,1,-126>>, <<8188,8188,1,-9>>, <<8486,8486,1,-7517>>,
      <<8490,8490,1,-8383>>, <<8491,8491,1,-8262>>, <<8498,8498,1,28>>,
      <<8544,8559,1,16>>, <<8579,8579,1,1>>, <<9398,9423,1,26>>, <<11264,11311,1,48>>,
      <<11360,11360,1,1>>, <<11362,11362,1,-10743>>, <<11363,11363,1,-3814>>,
      <<11364,11364,1,-10727>>, <<11367,11371,2,1>>, <<11373,11373,1,-10780>>,
      <<11374,11374,1,-10749>>, <<11375,11375,1,-10783>>, <<11376,11376,1,-10782>>,
      <<11378,11378,1,1>>, <<11381,11381,1,1>>, <<11390,11391,1,-10815>>,
      <<11392,11490,2,1>>, <<11499,11501,2,1>>, <<11506,11506,1,1>>,
      <<42560,42604,2,1>>, <<42624,42650,2,1>>, <<42786,42798,2,1>>,
      <<42802,42862,2,1>>, <<42873,42875,2,1>>, <<42877,42877,1,-35332>>,
      <<42878,42886,2,1>>, <<42891,42891,1,1>>, <<42893,42893,1,-42280>>,
      <<42896,42898,2,1>>, <<42902,42920,2,1>>, <<42922,42922,1,-42308>>,
      <<42923,42923,1,-42319>>, <<42924,42924,1,-42315>>, <<42925,42925,1,-42305>>,
      <<42926,42926,1,-42308>>, <<42928,42928,1,-42258>>, <<42929,42929,1,-42282>>,
      <<42930,42930,1,-42261>>, <<42931,42931,1,928>>, <<42932,42946,2,1>>,
      <<42948,42948,1,-48>>, <<42949,42949,1,-42307>>, <<42950,42950,1,-35384>>,
      <<42951,42953,2,1>>, <<42960,42960,1,1>>, <<42966,42968,2,1>>,
      <<42997,42997,1,1>>, <<65313,65338,1,32>>, <<66560,66599,1,40>>,
      <<66736,66771,1,40>>, <<66928,66938,1,39>>, <<66940,66954,1,39>>,
      <<66956,66962,1,39>>, <<66964,66965,1,39>>, <<68736,68786,1,64>>,
      <<71840,71871,1,32>>, <<93760,93791,1,32>>, <<125184,125217,1,34>>>>

\* The code points of the cased characters that are not case-ignorable.
CasedRanges ==
    <<<<65,90>>, <<97,122>>, <<170,170>>, <<181,181>>, <<186,186>>, <<192,214>>,
      <<216,246>>, <<248,442>>, <<444,447>>, <<452,659>>, <<661,687>>,
      <<880,883>>, <<886,887>>, <<891,893>>, <<895,895>>, <<902,902>>,
      <<904,906>>, <<908,908>>, <<910,929>>, <<931,1013>>, <<1015,1153>>,
      <<1162,1327>>, <<1329,1366>>, <<1376,1416>>, <<4256,4293>>, <<4295,4295>>,
      <<4301,4301>>, <<4304,4346>>, <<4349,4351>>, <<5024,5109>>, <<5112,5117>>,
      <<7296,7304>>, <<7312,7354>>, <<7357,7359>>, <<7424,7467>>, <<7531,7543>>,
      <<7545,7578>>, <<7680,7957>>, <<7960,7965>>, <<7968,8005>>, <<8008,8013>>,
      <<8016,8023>>, <<8025,8025>>, <<8027,8027>>, <<8029,8029>>, <<8031,8061>>,
      <<8064,8116>>, <<8118,8124>>, <<8126,8126>>, <<8130,8132>>, <<8134,8140>>,
      <<8144,8147>>, <<8150,8155>>, <<8160,8172>>, <<8178,8180>>, <<8182,8188>>,
      <<8450,8450>>, <<8455,8455>>, <<8458,8467>>, <<8469,8469>>, <<8473,8477>>,
      <<8484,8484>>, <<8486,8486>>, <<8488,8488>>, <<8490,8493>>, <<8495,8500>>,
      <<8505,8505>>, <<8508,8511>>, <<8517,8521>>, <<8526,8526>>, <<8544,8575>>,
      <<8579,8580>>, <<9398,9449>>, <<11264,11387>>, <<11390,11492>>,
      <<11499,11502>>, <<11506,11507>>, <<11520,11557>>, <<11559,11559>>,
      <<11565,11565>>, <<42560,42605>>, <<42624,42651>>, <<42786,42863>>,
      <<42865,42887>>, <<42891,42894>>, <<42896,42954>>, <<42960,42961>>,
      <<42963,42963>>, <<42965,42969>>, <<42997,42998>>, <<43002,43002>>,
      <<43824,43866>>, <<43872,43880>>, <<43888,43967>>, <<64256,64262>>,
      <<64275,64279>>, <<65313,65338>>, <<65345,65370>>, <<66560,66639>>,
      <<66736,66771>>, <<66776,66811>>, <<66928,66938>>, <<66940,66954>>,
      <<66956,66962>>, <<66964,66965>>, <<66967,66977>>, <<66979,66993>>,
      <<66995,67001>>, <<67003,67004>>, <<68736,68786>>, <<68800,68850>>,
      <<71840,71903>>, <<93760,93823>>, <<119808,119892>>, <<119894,119964>>,
      <<119966,119967>>, <<119970,119970>>, <<119973,119974>>, <<119977,119980>>,
      <<119982,119993>>, <<119995,119995>>, <<119997,120003>>, <<120005,120069>>,
      <<120071,120074>>, <<120077,120084>>, <<120086,120092>>, <<120094,120121>>,
      <<120123,120126>>, <<120128,120132>>, <<120134,120134>>, <<120138,120144>>,
      <<120146,120485>>, <<120488,120512>>, <<120514,120538>>, <<120540,120570>>,
      <<120572,120596>>, <<120598,120628>>, <<120630,120654>>, <<120656,120686>>,
      <<120688,120712>>, <<120714,120744>>, <<120746,120770>>, <<120772,120779>>,
      <<122624,122633>>, <<122635,122654>>, <<125184,125251>>, <<127280,127305>>,
      <<127312,127337>>, <<127344,127369>>>>

\* The code points of the case-ignorable characters.
CaseIgnorableRanges ==
    <<<<39,39>>, <<46,46>>, <<58,58>>, <<94,94>>, <<96,96>>, <<168,168>>,
      <<173,173>>, <<175,175>>, <<180,180>>, <<183,184>>, <<688,879>>,
      <<884,885>>, <<890,890>>, <<900,901>>, <<903,903>>, <<1155,1161>>,
      <<1369,1369>>, <<1375,1375>>, <<1425,1469>>, <<1471,1471>>, <<1473,1474>>,
      <<1476,1477>>, <<1479,1479>>, <<1524,1524>>, <<1536,1541>>, <<1552,1562>>,
      <<1564,1564>>, <<1600,1600>>, <<1611,1631>>, <<1648,1648>>, <<1750,1757>>,
      <<1759,1768>>, <<1770,1773>>, <<1807,1807>>, <<1809,1809>>, <<1840,1866>>,
      <<1958,1968>>, <<2027,2037>>, <<2042,2042>>, <<2045,2045>>, <<2070,2093>>,
      <<2137,2139>>, <<2184,2184>>, <<2192,2193>>, <<2200,2207>>, <<2249,2306>>,
      <<2362,2362>>, <<2364,2364>>, <<2369,2376>>, <<2381,2381>>, <<2385,2391>>,
      <<2402,2403>>, <<2417,2417>>, <<2433,2433>>, <<2492,2492>>, <<2497,2500>>,
      <<2509,2509>>, <<2530,2531>>, <<2558,2558>>, <<2561,2562>>, <<2620,2620>>,
      <<2625,2626>>, <<2631,2632>>, <<2635,2637>>, <<2641,2641>>, <<2672,2673>>,
      <<2677,2677>>, <<2689,2690>>, <<2748,2748>>, <<2753,2757>>, <<2759,2760>>,
      <<2765,2765>>, <<2786,2787>>, <<2810,2815>>, <<2817,2817>>, <<2876,2876>>,
      <<2879,2879>>, <<2881,2884>>, <<2893,2893>>, <<2901,2902>>, <<2914,2915>>,
      <<2946,2946>>, <<3008,3008>>, <<3021,3021>>, <<3072,3072>>, <<3076,3076>>,
      <<3132,3132>>, <<3134,3136>>, <<3142,3144>>, <<3146,3149>>, <<3157,3158>>,
      <<3170,3171>>, <<3201,3201>>, <<3260,3260>>, <<3263,3263>>, <<3270,3270>>,
      <<3276,3277>>, <<3298,3299>>, <<3328,3329>>, <<3387,3388>>, <<3393,3396>>,
      <<3405,3405>>, <<3426,3427>>, <<3457,3457>>, <<3530,3530>>, <<3538,3540>>,
      <<3542,3542>>, <<3633,3633>>, <<3636,3642>>, <<3654,3662>>, <<3761,3761>>,
      <<3764,3772>>, <<3782,3782>>, <<3784,3789>>, <<3864,3865>>, <<3893,3893>>,
      <<3895,3895>>, <<3897,3897>>, <<3953,3966>>, <<3968,3972>>, <<3974,3975>>,
      <<3981,3991>>, <<3993,4028>>, <<4038,4038>>, <<4141,4144>>, <<4146,4151>>,
      <<4153,4154>>, <<4157,4158>>, <<4184,4185>>, <<4190,4192>>, <<4209,4212>>,
      <<4226,4226>>, <<4229,4230>>, <<4237,4237>>, <<4253,4253>>, <<4348,4348>>,
      <<4957,4959>>, <<5906,5908>>, <<5938,5939>>, <<5970,5971>>, <<6002,6003>>,
      <<6068,6069>>, <<6071,6077>>, <<6086,6086>>, <<6089,6099>>, <<6103,6103>>,
      <<6109,6109>>, <<6155,6159>>, <<6211,6211>>, <<6277,6278>>, <<6313,6313>>,
      <<6432,6434>>, <<6439,6440>>, <<6450,6450>>, <<6457,6459>>, <<6679,6680>>,
      <<6683,6683>>, <<6742,6742>>, <<6744,6750>>, <<6752,6752>>, <<6754,6754>>,
      <<6757,6764>>, <<6771,6780>>, <<6783,6783>>, <<6823,6823>>, <<6832,6862>>,
      <<6912,6915>>, <<6964,6964>>, <<6966,6970>>, <<6972,6972>>, <<6978,6978>>,
      <<7019,7027>>, <<7040,7041>>, <<7074,7077>>, <<7080,7081>>, <<7083,7085>>,
      <<7142,7142>>, <<7144,7145>>, <<7149,7149>>, <<7151,7153>>, <<7212,7219>>,
      <<7222,7223>>, <<7288,7293>>, <<7376,7378>>, <<7380,7392>>, <<7394,7400>>,
      <<7405,7405>>, <<7412,7412>>, <<7416,7417>>, <<7468,7530>>, <<7544,7544>>,
      <<7579,7679>>, <<8125,8125>>, <<8127,8129>>, <<8141,8143>>, <<8157,8159>>,
      <<8173,8175>>, <<8189,8190>>, <<8203,8207>>, <<8216,8217>>, <<8228,8228>>,
      <<8231,8231>>, <<8234,8238>>, <<8288,8292>>, <<8294,8303>>, <<8305,8305>>,
      <<8319,8319>>, <<8336,8348>>, <<8400,8432>>, <<11388,11389>>, <<11503,11505>>,
      <<11631,11631>>, <<11647,11647>>, <<11744,11775>>, <<11823,11823>>,
      <<12293,12293>>, <<12330,12333>>, <<12337,12341>>, <<12347,12347>>,
      <<12441,12446>>, <<12540,12542>>, <<40981,40981>>, <<42232,42237>>,
      <<42508,42508>>, <<42607,42610>>, <<42612,42621>>, <<42623,42623>>,
      <<42652,42655>>, <<42736,42737>>, <<42752,42785>>, <<42864,42864>>,
      <<42888,42890>>, <<42994,42996>>, <<43000,43001>>, <<43010,43010>>,
      <<43014,43014>>, <<43019,43019>>, <<43045,43046>>, <<43052,43052>>,
      <<43204,43205>>, <<43232,43249>>, <<43263,43263>>, <<43302,43309>>,
      <<43335,43345>>, <<43392,43394>>, <<43443,43443>>, <<43446,43449>>,
      <<43452,43453>>, <<43471,43471>>, <<43493,43494>>, <<43561,43566>>,
      <<43569,43570>>, <<43573,43574>>, <<43587,43587>>, <<43596,43596>>,
      <<43632,43632>>, <<43644,43644>>, <<43696,43696>>, <<43698,43700>>,
      <<43703,43704>>, <<43710,43711>>, <<43713,43713>>, <<43741,43741>>,
      <<43756,43757>>, <<43763,43764>>, <<43766,43766>>, <<43867,43871>>,
      <<43881,43883>>, <<44005,44005>>, <<44008,44008>>, <<44013,44013>>,
      <<64286,64286>>, <<64434,64450>>, <<65024,65039>>, <<65043,65043>>,
      <<65056,65071>>, <<65106,65106>>, <<65109,65109>>, <<65279,65279>>,
      <<65287,65287>>, <<65294,65294>>, <<65306,65306>>, <<65342,65342>>,
      <<65344,65344>>, <<65392,65392>>, <<65438,65439>>, <<65507,65507>>,
      <<65529,65531>>, <<66045,66045>>, <<66272,66272>>, <<66422,66426>>,
      <<67456,67461>>, <<67463,67504>>, <<67506,67514>>, <<68097,68099>>,
      <<68101,68102>>, <<68108,68111>>, <<68152,68154>>, <<68159,68159>>,
      <<68325,68326>>, <<68900,68903>>, <<69291,69292>>, <<69446,69456>>,
      <<69506,69509>>, <<69633,69633>>, <<69688,69702>>, <<69744,69744>>,
      <<69747,69748>>, <<69759,69761>>, <<69811,69814>>, <<69817,69818>>,
      <<69821,69821>>, <<69826,69826>>, <<69837,69837>>, <<69888,69890>>,
      <<69927,69931>>, <<69933,69940>>, <<70003,70003>>, <<70016,70017>>,
      <<70070,70078>>, <<70089,70092>>, <<70095,70095>>, <<70191,70193>>,
      <<70196,70196>>, <<70198,70199>>, <<70206,70206>>, <<70367,70367>>,
      <<70371,70378>>, <<70400,70401>>, <<70459,70460>>, <<70464,70464>>,
      <<70502,70508>>, <<70512,70516>>, <<70712,70719>>, <<70722,70724>>,
      <<70726,70726>>, <<70750,70750>>, <<70835,70840>>, <<70842,70842>>,
      <<70847,70848>>, <<70850,70851>>, <<71090,71093>>, <<71100,71101>>,
      <<71103,71104>>, <<71132,71133>>, <<71219,71226>>, <<71229,71229>>,
      <<71231,71232>>, <<71339,71339>>, <<71341,71341>>, <<71344,71349>>,
      <<71351,71351>>, <<71453,71455>>, <<71458,71461>>, <<71463,71467>>,
      <<71727,71735>>, <<71737,71738>>, <<71995,71996>>, <<71998,71998>>,
      <<72003,72003>>, <<72148,72151>>, <<72154,72155>>, <<72160,72160>>,
      <<72193,72202>>, <<72243,72248>>, <<72251,72254>>, <<72263,72263>>,
      <<72273,72278>>, <<72281,72283>>, <<72330,72342>>, <<72344,72345>>,
      <<72752,72758>>, <<72760,72765>>, <<72767,72767>>, <<72850,72871>>,
      <<72874,72880>>, <<72882,72883>>, <<72885,72886>>, <<73009,73014>>,
      <<73018,73018>>, <<73020,73021>>, <<73023,73029>>, <<73031,73031>>,
      <<73104,73105>>, <<73109,73109>>, <<73111,73111>>, <<73459,73460>>,
      <<78896,78904>>, <<92912,92916>>, <<92976,92982>>, <<92992,92995>>,
      <<94031,94031>>, <<94095,94111>>, <<94176,94177>>, <<94179,94180>>,
      <<110576,110579>>, <<110581,110587>>, <<110589,110590>>, <<113821,113822>>,
      <<113824,113827>>, <<118528,118573>>, <<118576,118598>>, <<119143,119145>>,
      <<119155,119170>>, <<119173,119179>>, <<119210,119213>>, <<119362,119364>>,
      <<121344,121398>>, <<121403,121452>>, <<121461,121461>>, <<121476,121476>>,
      <<121499,121503>>, <<121505,121519>>, <<122880,122886>>, <<122888,122904>>,
      <<122907,122913>>, <<122915,122916>>, <<122918,122922>>, <<123184,123197>>,
      <<123566,123566>>, <<123628,123631>>, <<125136,125142>>, <<125252,125259>>,
      <<127995,127999>>, <<917505,917505>>, <<917536,917631>>, <<917760,917999>>>>

\* The code points of the digit zero of every decimal digit block: the
\* nine that follow it are the digits one to nine.
NdStarts ==
    {48, 1632, 1776, 1984, 2406, 2534, 2662, 2790, 2918, 3046,
     3174, 3302, 3430, 3558, 3664, 3792, 3872, 4160, 4240, 6112,
     6160, 6470, 6608, 6784, 6800, 6992, 7088, 7232, 7248, 42528,
     43216, 43264, 43472, 43504, 43600, 44016, 65296, 66720, 68912, 69734,
     69872, 69942, 70096, 70384, 70736, 70864, 71248, 71360, 71472, 71904,
     72016, 72784, 73040, 73120, 92768, 92864, 93008, 120782, 120792, 120802,
     120812, 120822, 123200, 123632, 125264, 130032}

\* ------------------------------------------------------------------------
\* Python str primitives
\* ------------------------------------------------------------------------

\* the code points of one entry of LowerRuns
RunCodes(r) == {r[1] + r[3] * k : k \in 0..((r[2] - r[1]) \div r[3])}

\* the lower-case character of every character of one entry of LowerRuns
RunMap(r) ==
    [u \in CharsOf(RunCodes(r)) |->
        Chr((CHOOSE c \in RunCodes(r) : Chr(c) = u) + r[4])]

\* the same for the entries from the a-th to the b-th
RECURSIVE RunsMap(_, _)
RunsMap(a, b) ==
    IF a = b THEN RunMap(LowerRuns[a])
    ELSE RunsMap(a, (a + b) \div 2) @@ RunsMap((a + b) \div 2 + 1, b)

\* the lower-case character of every character that has one other
\* character as its lower case
LowerOf == RunsMap(1, Len(LowerRuns))

HasLower == DOMAIN LowerOf

Cased == CharsOf(CodesOf(CasedRanges))

CaseIgnorable == CharsOf(CodesOf(CaseIgnorableRanges))

\* GREEK CAPITAL LETTER SIGMA, whose lower case depends on its place in
\* the word
CapitalSigma == Chr(931)

\* LATIN CAPITAL LETTER I WITH DOT ABOVE, whose lower case is two
\* characters
CapitalIDot == Chr(304)

\* str.lower() on one character other than the two above
LowerChar(c) == IF c \in HasLower THEN LowerOf[c] ELSE c

\* s[k] is a capital sigma at the end of a word: the nearest character
\* before it that is not case-ignorable is cased, and the nearest one
\* after it that is not case-ignorable, if any, is not cased
FinalSigma(s, k) ==
    LET before == {j \in 1..(k - 1) : s[j] \notin CaseIgnorable}
        after == {j \in (k + 1)..Len(s) : s[j] \notin CaseIgnorable}
    IN /\ before # {}
       /\ s[CHOOSE j \in before : \A h \in before : h <= j] \in Cased
       /\ \/ after = {}
          \/ s[CHOOSE j \in after : \A h \in after : j <= h] \notin Cased

\* what s[k] becomes in s.lower()
LowerAt(s, k) ==
    IF s[k] = CapitalSigma
    THEN <<IF FinalSigma(s, k) THEN Chr(962) ELSE Chr(963)>>
    ELSE IF s[k] = CapitalIDot THEN <<"i", Chr(775)>>
    ELSE <<LowerChar(s[k])>>

RECURSIVE LowerFrom(_, _)
LowerFrom(s, k) ==
    IF k > Len(s) THEN <<>> ELSE LowerAt(s, k) \o LowerFrom(s, k + 1)

\* str.lower()
Lower(s) ==
    IF \A k \in 1..Len(s) : s[k] # CapitalSigma /\ s[k] # CapitalIDot
    THEN [k \in 1..Len(s) |-> LowerChar(s[k])]
    ELSE LowerFrom(s, 1)

\* s[a:b] with 0-based Python slice bounds 0 <= a, b <= len(s)
Slice(s, a, b) == IF b <= a THEN <<>> ELSE SubSeq(s, a + 1, b)

\* s.startswith(p)
StartsWith(s, p) == Len(s) >= Len(p) /\ SubSeq(s, 1, Len(p)) = p

\* s.find(sub, start): 0-based index of the first occurrence at or after
\* start, or -1
FindFrom(s, sub, start) ==
    LET hits == {k \in start..(Len(s) - Len(sub)) :
                     SubSeq(s, k + 1, k + Len(sub)) = sub}
    IN IF hits = {} THEN -1 ELSE CHOOSE k \in hits : \A h \in hits : k <= h

Find(s, sub) == FindFrom(s, sub, 0)

\* s.rfind(sub)
RFind(s, sub) ==
    LET hits == {k \in 0..(Len(s) - Len(sub)) :
                     SubSeq(s, k + 1, k + Len(sub)) = sub}
    IN IF hits = {} THEN -1 ELSE CHOOSE k \in hits : \A h \in hits : k >= h

\* sub in s
Contains(s, sub) == Find(s, sub) >= 0

\* s.replace(a, b) for one-character a and b
ReplaceChar(s, a, b) == [k \in 1..Len(s) |-> IF s[k] = a THEN b ELSE s[k]]

\* s.rstrip(chars) for a set of characters
RECURSIVE RStripSet(_, _)
RStripSet(s, chars) ==
    IF s # <<>> /\ s[Len(s)] \in chars
    THEN RStripSet(SubSeq(s, 1, Len(s) - 1), chars) ELSE s

\* s.lstrip(chars) for a set of characters
RECURSIVE LStripSet(_, _)
LStripSet(s, chars) ==
    IF s # <<>> /\ s[1] \in chars THEN LStripSet(Tail(s), chars) ELSE s

\* s.rstrip(c) for a one-character c
RStrip(s, c) == RStripSet(s, {c})

\* s.lstrip(c) for a one-character c
LStrip(s, c) == LStripSet(s, {c})

\* s.strip()
Strip(s) == LStripSet(RStripSet(s, Whitespace), Whitespace)

\* s without the characters of a set
RECURSIVE Without(_, _)
Without(s, chars) ==
    IF s = <<>> THEN <<>>
    ELSE (IF s[1] \in chars THEN <<>> ELSE <<s[1]>>) \o Without(Tail(s), chars)

\* the segments of s from position start on, the scan being at position k
RECURSIVE SplitScan(_, _, _, _)
SplitScan(s, sep, k, start) ==
    IF k > Len(s) THEN <<SubSeq(s, start, Len(s))>>
    ELSE IF s[k] = sep
         THEN <<SubSeq(s, start, k - 1)>> \o SplitScan(s, sep, k + 1, k + 1)
         ELSE SplitScan(s, sep, k + 1, start)

\* s.split(sep) for a one-character sep: every segment, empty ones included
Split(s, sep) == SplitScan(s, sep, 1, 1)

\* sep.join(parts) for a one-character sep
RECURSIVE Join(_, _)
Join(parts, sep) ==
    IF parts = <<>> THEN <<>>
    ELSE IF Len(parts) = 1 THEN parts[1]
    ELSE parts[1] \o <<sep>> \o Join(Tail(parts), sep)

\* str(n) for an integer n
RECURSIVE NatStr(_)
NatStr(n) ==
    IF n < 10 THEN <<DigitChars[n + 1]>>
    ELSE NatStr(n \div 10) \o <<DigitChars[(n % 10) + 1]>>

IntStr(n) == IF n < 0 THEN <<"-">> \o NatStr(0 - n) ELSE NatStr(n)

\* ------------------------------------------------------------------------
\* urllib.parse as uri_to_path uses it (urlparse(uri).path and unquote)
\* ------------------------------------------------------------------------

HexLower == <<"0","1","2","3","4","5","6","7","8","9","a","b","c","d","e","f">>

HexDigits == Range(HexUpper) \cup Range(HexLower)

IsHex(c) == c \in HexDigits

HexVal(c) == (CHOOSE k \in 1..16 : HexUpper[k] = c \/ HexLower[k] = c) - 1

\* the byte of the escape %XX that starts at position k of s, -1 when no
\* escape starts there
EscapeAt(s, k) ==
    IF k + 2 <= Len(s) /\ s[k] = "%" /\ IsHex(s[k + 1]) /\ IsHex(s[k + 2])
    THEN 16 * HexVal(s[k + 1]) + HexVal(s[k + 2])
    ELSE -1

\* how many continuation bytes the UTF-8 lead byte b takes, 0 when b is no
\* lead byte of a multi-byte sequence
Utf8Need(b) ==
    IF 194 <= b /\ b <= 223 THEN 1
    ELSE IF 224 <= b /\ b <= 239 THEN 2
    ELSE IF 240 <= b /\ b <= 244 THEN 3
    ELSE 0

\* c can be the j-th continuation byte after the lead byte b
IsContinuation(b, j, c) ==
    LET low == IF j = 1 /\ b = 224 THEN 160
               ELSE IF j = 1 /\ b = 240 THEN 144 ELSE 128
        high == IF j = 1 /\ b = 237 THEN 159
                ELSE IF j = 1 /\ b = 244 THEN 143 ELSE 191
    IN low <= c /\ c <= high

\* how many of the escapes that follow the escape at k are continuation
\* bytes of its lead byte b, up to the number b takes
Utf8Got(s, k, b) ==
    LET ok == {j \in 0..Utf8Need(b) :
                  \A h \in 1..j : IsContinuation(b, h, EscapeAt(s, k + 3 * h))}
    IN CHOOSE j \in ok : \A h \in ok : h <= j

\* the code point of the complete sequence of escapes that starts at k
\* with the lead byte b
Utf8CodePoint(s, k, b) ==
    LET c(j) == EscapeAt(s, k + 3 * j) - 128
    IN CASE Utf8Need(b) = 1 -> (b - 192) * 64 + c(1)
         [] Utf8Need(b) = 2 -> (b - 224) * 4096 + c(1) * 64 + c(2)
         [] Utf8Need(b) = 3 ->
                (b - 240) * 262144 + c(1) * 4096 + c(2) * 64 + c(3)

\* unquote from position k on: an escape below 128 is its character; the
\* escapes of a complete UTF-8 sequence are its character; a byte that
\* starts no sequence, and the valid start of a sequence that is cut
\* short, are one U+FFFD; a % that starts no escape is kept as it is
RECURSIVE UnquoteFrom(_, _)
UnquoteFrom(s, k) ==
    IF k > Len(s) THEN <<>>
    ELSE LET b == EscapeAt(s, k)
         IN IF b < 0 THEN <<s[k]>> \o UnquoteFrom(s, k + 1)
            ELSE IF b < 128 THEN <<Chr(b)>> \o UnquoteFrom(s, k + 3)
            ELSE LET need == Utf8Need(b)
                     got == Utf8Got(s, k, b)
                 IN IF need > 0 /\ got = need
                    THEN <<Chr(Utf8CodePoint(s, k, b))>>
                         \o UnquoteFrom(s, k + 3 * (need + 1))
                    ELSE <<Chr(65533)>> \o UnquoteFrom(s, k + 3 * (got + 1))

\* urllib.parse.unquote(string): the escapes decoded as UTF-8, errors
\* replaced
unquote(s) == UnquoteFrom(s, 1)

\* urllib.parse._WHATWG_C0_CONTROL_OR_SPACE
C0ControlOrSpace == CharsOf(0..32)

\* urllib.parse._UNSAFE_URL_BYTES_TO_REMOVE: tab, carriage return, line feed
UnsafeUrlBytes == CharsOf({9, 13, 10})

\* urllib.parse.scheme_chars
SchemeChars == AsciiLetters \cup AsciiDigits \cup {"+", "-", "."}

IsSchemeChar(c) == c \in SchemeChars

\* urllib.parse.uses_params
UsesParams ==
    {<<>>,
     <<"f","t","p">>,
     <<"h","d","l">>,
     <<"p","r","o","s","p","e","r","o">>,
     <<"h","t","t","p">>,
     <<"i","m","a","p">>,
     <<"h","t","t","p","s">>,
     <<"s","h","t","t","p">>,
     <<"r","t","s","p">>,
     <<"r","t","s","p","s">>,
     <<"r","t","s","p","u">>,
     <<"s","i","p">>,
     <<"s","i","p","s">>,
     <<"m","m","s">>,
     <<"s","f","t","p">>,
     <<"t","e","l">>}

\* ipaddress.IPv4Address._parse_octet: one to three ASCII digits, no
\* leading zero, 255 at most
ValidOctet(o) ==
    /\ o # <<>>
    /\ \A k \in 1..Len(o) : o[k] \in AsciiDigits
    /\ Len(o) <= 3
    /\ o = <<"0">> \/ o[1] # "0"
    /\ LET v(k) == HexVal(o[k])
       IN (IF Len(o) = 3 THEN 100 * v(1) + 10 * v(2) + v(3) ELSE 0) <= 255

\* ipaddress.IPv4Address(s) succeeds
ValidIPv4(s) ==
    LET octets == Split(s, ".")
    IN /\ s # <<>>
       /\ Len(octets) = 4
       /\ \A k \in 1..4 : ValidOctet(octets[k])

\* ipaddress.IPv6Address._parse_hextet: one to four hex digits
ValidHextet(h) ==
    /\ h # <<>>
    /\ \A k \in 1..Len(h) : IsHex(h[k])
    /\ Len(h) <= 4

\* ipaddress.IPv6Address._ip_int_from_string(s) succeeds
ValidIPv6Groups(s) ==
    LET parts0 == Split(s, ":")
        last0 == parts0[Len(parts0)]
        v4 == "." \in Range(last0)
        \* an IPv4 suffix is replaced by the two hextets it stands for
        parts == IF v4
                 THEN SubSeq(parts0, 1, Len(parts0) - 1) \o <<<<"0">>, <<"0">>>>
                 ELSE parts0
        n == Len(parts)
        skips == {k \in 2..(n - 1) : parts[k] = <<>>}
        skip == CHOOSE k \in skips : TRUE
        hi0 == skip - 1
        lo0 == n - skip
        parts_hi == IF parts[1] = <<>> THEN hi0 - 1 ELSE hi0
        parts_lo == IF parts[n] = <<>> THEN lo0 - 1 ELSE lo0
    IN /\ s # <<>>
       /\ Len(parts0) >= 3
       /\ v4 => ValidIPv4(last0)
       /\ n <= 9
       /\ Cardinality(skips) <= 1
       /\ IF skips # {}
          THEN /\ parts[1] = <<>> => parts_hi = 0
               /\ parts[n] = <<>> => parts_lo = 0
               /\ 8 - (parts_hi + parts_lo) >= 1
               /\ \A k \in 1..parts_hi : ValidHextet(parts[k])
               /\ \A k \in (n - parts_lo + 1)..n : ValidHextet(parts[k])
          ELSE /\ n = 8
               /\ \A k \in 1..8 : ValidHextet(parts[k])

\* ipaddress.IPv6Address(s) succeeds: the groups, and after a "%" a scope
\* id that is not empty and holds no other "%"
ValidIPv6(s) ==
    LET p == Find(s, <<"%">>)
        addr == IF p < 0 THEN s ELSE Slice(s, 0, p)
        scope_id == IF p < 0 THEN <<>> ELSE Slice(s, p + 1, Len(s))
    IN /\ p >= 0 => (scope_id # <<>> /\ "%" \notin Range(scope_id))
       /\ ValidIPv6Groups(addr)

\* re.match(r"\Av[a-fA-F0-9]+\..+\Z", hostname), for a hostname that
\* starts with "v" and holds no line feed
ValidIPvFuture(hostname) ==
    \E n \in 1..(Len(hostname) - 3) :
        /\ \A k \in 2..(n + 1) : IsHex(hostname[k])
        /\ hostname[n + 2] = "."

\* urllib.parse._check_bracketed_host(hostname) returns
ValidBracketedHost(hostname) ==
    IF hostname # <<>> /\ hostname[1] = "v" THEN ValidIPvFuture(hostname)
    ELSE ValidIPv6(hostname)

\* netloc.partition('[')[2].partition(']')[0]
BracketedHost(netloc) ==
    LET a == Slice(netloc, Find(netloc, <<"[">>) + 1, Len(netloc))
    IN IF Contains(a, <<"]">>) THEN Slice(a, 0, Find(a, <<"]">>)) ELSE a

\* The characters whose NFKC normal form holds one of / ? # @ :
NfkcDelimiters ==
    CharsOf({8263, 8264, 8265, 8448, 8449, 8453, 8454, 10868, 65043, 65046,
             65109, 65110, 65119, 65131, 65283, 65295, 65306, 65311, 65312})

\* urlsplit raises ValueError for this network location: one bracket
\* without the other, a bracketed host that is no IPv6 or IPvFuture
\* address, or (_checknetloc) a character that NFKC turns into a delimiter
NetlocRaises(netloc) ==
    LET open == "[" \in Range(netloc)
        shut == "]" \in Range(netloc)
    IN \/ open # shut
       \/ open /\ shut /\ ~ValidBracketedHost(BracketedHost(netloc))
       \/ \E k \in 1..Len(netloc) : netloc[k] \in NfkcDelimiters

\* the position where the network location of url (which starts with
\* "//") ends: urllib.parse._splitnetloc(url, 2)
NetlocEnd(url) ==
    LET ends == {FindFrom(url, <<c>>, 2) : c \in {"/", "?", "#"}} \ {-1}
    IN IF ends = {} THEN Len(url)
       ELSE CHOOSE d \in ends : \A e \in ends : d <= e

\* url.split(c, 1)[0] when c occurs in url, else url
Before(url, c) ==
    IF Contains(url, <<c>>) THEN Slice(url, 0, Find(url, <<c>>)) ELSE url

\* urllib.parse.urlsplit(url): whether it raises ValueError, and the scheme
\* and the path of its result
urlsplit(url0) ==
    LET url == Without(LStripSet(url0, C0ControlOrSpace), UnsafeUrlBytes)
        i == Find(url, <<":">>)
        hasScheme == /\ i > 0
                     /\ url[1] \in AsciiLetters
                     /\ \A k \in 1..i : IsSchemeChar(url[k])
        scheme == IF hasScheme THEN Lower(Slice(url, 0, i)) ELSE <<>>
        u1 == IF hasScheme THEN Slice(url, i + 1, Len(url)) ELSE url
        hasNetloc == StartsWith(u1, <<"/", "/">>)
        netloc == IF hasNetloc THEN Slice(u1, 2, NetlocEnd(u1)) ELSE <<>>
        u2 == IF hasNetloc THEN Slice(u1, NetlocEnd(u1), Len(u1)) ELSE u1
    IN IF NetlocRaises(netloc)
       THEN [raised |-> TRUE, scheme |-> <<>>, path |-> <<>>]
       ELSE [raised |-> FALSE, scheme |-> scheme,
             path |-> Before(Before(u2, "#"), "?")]

\* urllib.parse._splitparams(url)[0]
SplitParams(url) ==
    LET i == IF Contains(url, <<"/">>)
             THEN FindFrom(url, <<";">>, RFind(url, <<"/">>))
             ELSE Find(url, <<";">>)
    IN IF i < 0 THEN url ELSE Slice(url, 0, i)

\* what urlparse makes of the result r of urlsplit: the path loses its
\* parameters when the scheme uses them
ParseResult(r) ==
    [raised |-> r.raised,
     path |-> IF r.scheme \in UsesParams /\ Contains(r.path, <<";">>)
              THEN SplitParams(r.path) ELSE r.path]

\* urllib.parse.urlparse(url): whether it raises ValueError, and the path
\* of its result
urlparse(url) == ParseResult(urlsplit(url))

\* ------------------------------------------------------------------------
\* pathlib.Path as display_title and main use it (POSIX flavour)
\* ------------------------------------------------------------------------

\* The components a path keeps: empty and "." segments are dropped.
RECURSIVE DropTrivial(_)
DropTrivial(segs) ==
    IF segs = <<>> THEN <<>>
    ELSE (IF segs[1] \in {<<>>, <<".">>} THEN <<>> ELSE <<segs[1]>>)
         \o DropTrivial(Tail(segs))

\* Path(p).name: the final component, "" when there is none
PathName(p) ==
    LET parts == DropTrivial(Split(p, "/"))
    IN IF parts = <<>> THEN <<>> ELSE parts[Len(parts)]

\* Path(p).stem: the name without its last suffix; a leading or a
\* trailing dot starts no suffix
PathStem(p) ==
    LET name == PathName(p)
        i == RFind(name, <<".">>)
    IN IF 0 < i /\ i < Len(name) - 1 THEN Slice(name, 0, i) ELSE name

\* ------------------------------------------------------------------------
\* The functions of xspf_to_m3u.py
\* ------------------------------------------------------------------------

\* An XML child element: absent, or present with its text.
NoElement == [present |-> FALSE, text |-> <<>>]

Element(text) == [present |-> TRUE, text |-> text]

\* extract_text: the stripped text of the child, "" when it is absent or
\* has no text
extract_text(el) == IF el.present /\ el.text # <<>> THEN Strip(el.text) ELSE <<>>

\* Python's None for an optional string or integer
None == [some |-> FALSE, val |-> <<>>]

Some(v) == [some |-> TRUE, val |-> v]

\* extract_location: None when the element is absent or blank
extract_location(el) ==
    IF ~el.present \/ Strip(el.text) = <<>> THEN None ELSE Some(Strip(el.text))

\* what a call gives: the value it returns, or the exception it raises
Returns(v) == [raised |-> FALSE, val |-> v]

ValueError == [raised |-> TRUE, val |-> <<>>]

\* the URI branch of uri_to_path, for the result p of urlparse(uri):
\* unquote(p.path or "").replace("\\", "/")
UnquotedPath(p) ==
    IF p.raised THEN ValueError
    ELSE Returns(ReplaceChar(unquote(p.path), "\\", "/"))

\* uri_to_path: decode a URI's path, keep a bare path, backslashes to
\* forward slashes in both cases; the ValueError of urlparse is not caught
uri_to_path(uri) ==
    IF Contains(uri, <<":", "/", "/">>)
    THEN UnquotedPath(urlparse(uri))
    ELSE Returns(ReplaceChar(uri, "\\", "/"))

\* parts of strip_to_rel: the path's components
PathParts(path) == DropTrivial(Split(path, "/"))

S_home == <<"h","o","m","e">>

S_Users == <<"U","s","e","r","s">>

\* FirstAnchorIndex with the anchors taken in list order: the first anchor
\* that matches anywhere decides, at its leftmost match
FirstAnchorIndex_ListOrder(parts, anchors) ==
    LET Hits(a) == {k \in 1..Len(parts) : Lower(parts[k]) = Lower(a)}
        as == {n \in 1..Len(anchors) : Hits(anchors[n]) # {}}
    IN IF as = {} THEN 0
       ELSE LET a == anchors[CHOOSE n \in as : \A o \in as : n <= o]
            IN CHOOSE k \in Hits(a) : \A h \in Hits(a) : k <= h

\* the 1-based position of the first component that lower-cases to a
\* lower-cased anchor, 0 when there is none
FirstAnchorIndex(parts, anchors) ==
    LET lower_anchors == {Lower(anchors[k]) : k \in 1..Len(anchors)}
        hits == {k \in 1..Len(parts) : Lower(parts[k]) \in lower_anchors}
    IN IF hits = {} THEN 0 ELSE CHOOSE k \in hits : \A h \in hits : k <= h

\* HeuristicRel with the home prefix recognised in any case
HeuristicRel_AnyCase(parts0) ==
    LET parts == IF Len(parts0) > 2 /\ Lower(parts0[1]) \in {S_home, Lower(S_Users)}
                 THEN SubSeq(parts0, 3, Len(parts0)) ELSE parts0
        n == Len(parts)
    IN IF n >= 3 THEN Join(SubSeq(parts, n - 2, n), "/")
       ELSE IF n = 2 THEN Join(parts, "/")
       ELSE IF parts # <<>> THEN parts[n] ELSE <<>>

\* the tail of strip_to_rel, taken when no anchor matched
HeuristicRel(parts0) ==
    LET parts == IF Len(parts0) > 2 /\ parts0[1] \in {S_home, S_Users}
                 THEN SubSeq(parts0, 3, Len(parts0)) ELSE parts0
        n == Len(parts)
    IN IF n >= 3 THEN Join(SubSeq(parts, n - 2, n), "/")
       ELSE IF n = 2 THEN Join(parts, "/")
       ELSE IF parts # <<>> THEN parts[n] ELSE <<>>

\* AnchorRel with the slice starting at the match instead of after it
AnchorRel_FromMatch(parts, i) ==
    LET rest == SubSeq(parts, i, Len(parts))
    IN IF rest # <<>> THEN Join(rest, "/") ELSE parts[Len(parts)]

\* the anchor branch of strip_to_rel, for the match at 1-based position i
AnchorRel(parts, i) ==
    LET rest == SubSeq(parts, i + 1, Len(parts))
    IN IF rest # <<>> THEN Join(rest, "/") ELSE parts[Len(parts)]

strip_to_rel(path, anchors) ==
    LET parts == PathParts(path)
        i == FirstAnchorIndex(parts, anchors)
    IN IF i > 0 THEN AnchorRel(parts, i) ELSE HeuristicRel(parts)

\* display_title that falls back to the creator before the file name
display_title_CreatorFallback(creator, title, path_rel) ==
    IF creator # <<>> /\ title # <<>> THEN creator \o <<" ", "-", " ">> \o title
    ELSE IF title # <<>> THEN title
    ELSE IF creator # <<>> THEN creator
    ELSE PathName(path_rel)

display_title(creator, title, path_rel) ==
    IF creator # <<>> /\ title # <<>> THEN creator \o <<" ", "-", " ">> \o title
    ELSE IF title # <<>> THEN title
    ELSE PathName(path_rel)

\* the value of every decimal digit character, of any script
DecimalOf ==
    [c \in CharsOf({s + d : s \in NdStarts, d \in 0..9}) |->
        CHOOSE d \in 0..9 : \E s \in NdStarts : Chr(s + d) = c]

Decimals == DOMAIN DecimalOf

IsDigit(c) == c \in Decimals

\* the white space int() skips at both ends: the ASCII characters tab to
\* carriage return and space, and every white space character above 127
IntSpace == Whitespace \ CharsOf(28..31)

\* sys.get_int_max_str_digits(): int() raises ValueError for more digits
int_max_str_digits == 4300

\* int(s) of Python: white space at both ends, an optional sign, then
\* decimal digits, single underscores allowed between digits
IsIntBody(b) ==
    /\ b # <<>>
    /\ IsDigit(b[1]) /\ IsDigit(b[Len(b)])
    /\ \A k \in 1..Len(b) : IsDigit(b[k]) \/ b[k] = "_"
    /\ \A k \in 1..(Len(b) - 1) : ~(b[k] = "_" /\ b[k + 1] = "_")
    /\ Cardinality({k \in 1..Len(b) : IsDigit(b[k])}) <= int_max_str_digits

RECURSIVE DigitsVal(_)
DigitsVal(b) ==
    IF b = <<>> THEN 0
    ELSE IF b[Len(b)] = "_" THEN DigitsVal(SubSeq(b, 1, Len(b) - 1))
    ELSE 10 * DigitsVal(SubSeq(b, 1, Len(b) - 1)) + DecimalOf[b[Len(b)]]

IntStrip(s) == LStripSet(RStripSet(s, IntSpace), IntSpace)

IntBody(s) == IF s # <<>> /\ s[1] \in {"+", "-"} THEN Tail(s) ELSE s

\* int(s) returns
IntParses(s) == IsIntBody(IntBody(IntStrip(s)))

\* the integer int(s) returns
IntVal(s) ==
    LET t == IntStrip(s)
    IN IF t[1] = "-" THEN 0 - DigitsVal(IntBody(t)) ELSE DigitsVal(IntBody(t))

\* floor division, Python's //
FloorDiv(a, b) == a \div b

\* ms_to_seconds that truncates instead of rounding
ms_to_seconds_Truncating(ms_str) ==
    IF IntParses(ms_str) THEN FloorDiv(IntVal(ms_str), 1000) ELSE -1

ms_to_seconds(ms_str) ==
    IF IntParses(ms_str) THEN FloorDiv(IntVal(ms_str) + 500, 1000) ELSE -1

\* join_posix that keeps the base's trailing slashes
join_posix_NoStrip(base, rel) == base \o <<"/">> \o LStrip(rel, "/")

join_posix(base, rel) == RStrip(base, "/") \o <<"/">> \o LStrip(rel, "/")

\* ------------------------------------------------------------------------
\* State of one run of main()
\* ------------------------------------------------------------------------

VARIABLES
    strip_after,  \* the --strip-after values given on the command line
    no_extm3u,    \* args.no_extm3u
    gonic_base,   \* args.gonic_base: None, or the string given
    output_m3u,   \* args.output_m3u
    xml,          \* the <track> elements of the parsed document, in order
    pc,           \* where the run is
    tracks,       \* the list parse_tracks returned
    lines,        \* the output lines collected so far
    seen,         \* the output paths emitted so far
    i,            \* how many tracks the loop has consumed
    rel,          \* the loop's rel, as the last iteration set it
    out_path,     \* the loop's out_path, as the last iteration set it
    file          \* the output file: whether the run has opened it, and
                  \* the text written to it

vars == <<strip_after, no_extm3u, gonic_base, output_m3u, xml, pc, tracks,
          lines, seen, i, rel, out_path, file>>

S_Music == <<"M","u","s","i","c">>

\* args.anchors: argparse appends every --strip-after value to the default
\* list ["Music"]
Anchors == <<S_Music>> \o strip_after

\* gonic_mode = bool(args.gonic_base)
gonic_mode == gonic_base.some /\ gonic_base.val # <<>>

\* not args.no_extm3u and not gonic_mode
extended_mode == ~no_extm3u /\ ~gonic_mode

\* duration_s of a track: None, or an integer
NoDuration == [some |-> FALSE, val |-> 0]

\* the record parse_tracks builds for one <track> with a location whose
\* path is p
TrackRecord(trk, p) ==
    LET duration_ms == extract_text(trk.duration)
    IN [path |-> p,
        title |-> extract_text(trk.title),
        creator |-> extract_text(trk.creator),
        duration_s |-> IF duration_ms # <<>>
                       THEN [some |-> TRUE, val |-> ms_to_seconds(duration_ms)]
                       ELSE NoDuration]

\* tracks.append for the <track> trk, p being what uri_to_path gave for
\* its location and out what the tracks after trk give
Appended(trk, p, out) ==
    IF p.raised \/ out.raised THEN ValueError
    ELSE Returns(<<TrackRecord(trk, p.val)>> \o out.val)

\* one iteration of the loop of parse_tracks: a <track> whose location
\* loc is None is skipped
TrackThen(trk, loc, out) ==
    IF ~loc.some THEN out ELSE Appended(trk, uri_to_path(loc.val), out)

\* parse_tracks: one record per <track> that has a location, in order;
\* the ValueError of the first location uri_to_path raises for ends it
RECURSIVE parse_tracks(_)
parse_tracks(trks) ==
    IF trks = <<>> THEN Returns(<<>>)
    ELSE TrackThen(trks[1], extract_location(trks[1].location),
                   parse_tracks(Tail(trks)))

\* An output line: its text, and which statement of main appended it.
Line(kind, text) == [kind |-> kind, text |-> text]

T_EXTM3U == <<"#","E","X","T","M","3","U">>

T_EXTINF == <<"#","E","X","T","I","N","F",":">>

ExtM3ULine == Line("EXTM3U", T_EXTM3U)

\* dur_val = dur if isinstance(dur, int) and dur >= 0 else -1
dur_val(dur) == IF dur.some /\ dur.val >= 0 THEN dur.val ELSE -1

\* f"#EXTINF:{dur_val},{disp}"
ExtInfLine(t, path_rel) ==
    Line("EXTINF",
         T_EXTINF \o IntStr(dur_val(t.duration_s)) \o <<",">>
             \o display_title(t.creator, t.title, path_rel))

\* out_path = join_posix(args.gonic_base, rel) if gonic_mode else rel
OutPath(path_rel) ==
    IF gonic_mode THEN join_posix(gonic_base.val, path_rel) ELSE path_rel

\* the three #GONIC- header lines
GonicHeaders ==
    <<Line("GONIC", <<"#","G","O","N","I","C","-","N","A","M","E",":","\"">> \o PathStem(output_m3u) \o <<"\"">>),
      Line("GONIC", <<"#","G","O","N","I","C","-","C","O","M","M","E","N","T",":","\"","\"">>),
      Line("GONIC", <<"#","G","O","N","I","C","-","I","S","-","P","U","B","L","I","C",":","\"","f","a","l","s","e","\"">>)>>

\* the line feed main ends every written line with
LF == Chr(10)

\* the surrogate code points, which the utf-8 codec of the output file
\* does not encode
Surrogates == CharsOf(55296..57343)

\* f.write(text) raises no UnicodeEncodeError
Encodable(text) == \A k \in 1..Len(text) : text[k] \notin Surrogates

\* the output file before the run opens it
NotOpened == [opened |-> FALSE, text |-> <<>>]

\* the text the loop over ls writes, one f.write(l + "\n") after the other,
\* up to the first line that cannot be encoded
RECURSIVE Written(_)
Written(ls) ==
    IF ls = <<>> \/ ~Encodable(ls[1].text) THEN <<>>
    ELSE ls[1].text \o <<LF>> \o Written(Tail(ls))

\* ------------------------------------------------------------------------
\* The steps of main()
\* ------------------------------------------------------------------------

\* Start with the #EXTM3U header appended whenever Gonic mode is off,
\* --no-extm3u or not
Start_HeaderAlways ==
    /\ pc = "start"
    /\ \E r \in {parse_tracks(xml)} : ~r.raised /\ tracks' = r.val
    /\ lines' = IF ~gonic_mode THEN <<ExtM3ULine>> ELSE <<>>
    /\ seen' = {}
    /\ pc' = "loop"
    /\ UNCHANGED <<strip_after, no_extm3u, gonic_base, output_m3u, xml, i, rel,
                   out_path, file>>

\* tracks = parse_tracks(root); lines = [] with the #EXTM3U header in
\* Extended mode; seen = set()
Start ==
    /\ pc = "start"
    /\ \E r \in {parse_tracks(xml)} : ~r.raised /\ tracks' = r.val
    /\ lines' = IF extended_mode THEN <<ExtM3ULine>> ELSE <<>>
    /\ seen' = {}
    /\ pc' = "loop"
    /\ UNCHANGED <<strip_after, no_extm3u, gonic_base, output_m3u, xml, i, rel,
                   out_path, file>>

\* parse_tracks raises: main ends with the ValueError, before the output
\* file is opened
ParseRaises ==
    /\ pc = "start"
    /\ parse_tracks(xml).raised
    /\ pc' = "ValueError"
    /\ UNCHANGED <<strip_after, no_extm3u, gonic_base, output_m3u, xml, tracks,
                   lines, seen, i, rel, out_path, file>>

\* one iteration of the loop whose track resolves to the empty path
SkipEmpty ==
    /\ pc = "loop"
    /\ i < Len(tracks)
    /\ rel' = strip_to_rel(tracks[i + 1].path, Anchors)
    /\ rel' = <<>>
    /\ i' = i + 1
    /\ UNCHANGED <<strip_after, no_extm3u, gonic_base, output_m3u, xml, pc,
                   tracks, lines, seen, out_path, file>>

\* one iteration of the loop whose output path was emitted before
SkipDuplicate ==
    /\ pc = "loop"
    /\ i < Len(tracks)
    /\ rel' = strip_to_rel(tracks[i + 1].path, Anchors)
    /\ rel' # <<>>
    /\ out_path' = OutPath(rel')
    /\ out_path' \in seen
    /\ i' = i + 1
    /\ UNCHANGED <<strip_after, no_extm3u, gonic_base, output_m3u, xml, pc,
                   tracks, lines, seen, file>>

\* Emit without seen.add(out_path)
Emit_SeenNotUpdated ==
    /\ pc = "loop"
    /\ i < Len(tracks)
    /\ rel' = strip_to_rel(tracks[i + 1].path, Anchors)
    /\ rel' # <<>>
    /\ out_path' = OutPath(rel')
    /\ out_path' \notin seen
    /\ seen' = seen
    /\ lines' = lines
                \o (IF extended_mode
                    THEN <<ExtInfLine(tracks[i + 1], rel')>> ELSE <<>>)
                \o <<Line("PATH", out_path')>>
    /\ i' = i + 1
    /\ UNCHANGED <<strip_after, no_extm3u, gonic_base, output_m3u, xml, pc,
                   tracks, file>>

\* one iteration of the loop that emits the track
Emit ==
    /\ pc = "loop"
    /\ i < Len(tracks)
    /\ rel' = strip_to_rel(tracks[i + 1].path, Anchors)
    /\ rel' # <<>>
    /\ out_path' = OutPath(rel')
    /\ out_path' \notin seen
    /\ seen' = seen \cup {out_path'}
    /\ lines' = lines
                \o (IF extended_mode
                    THEN <<ExtInfLine(tracks[i + 1], rel')>> ELSE <<>>)
                \o <<Line("PATH", out_path')>>
    /\ i' = i + 1
    /\ UNCHANGED <<strip_after, no_extm3u, gonic_base, output_m3u, xml, pc,
                   tracks, file>>

\* after the loop: the Gonic headers go in front, and every line is
\* written
Finish ==
    /\ pc = "loop"
    /\ i = Len(tracks)
    /\ lines' = IF gonic_mode THEN GonicHeaders \o lines ELSE lines
    /\ \A k \in 1..Len(lines') : Encodable(lines'[k].text)
    /\ file' = [opened |-> TRUE, text |-> Written(lines')]
    /\ pc' = "done"
    /\ UNCHANGED <<strip_after, no_extm3u, gonic_base, output_m3u, xml, tracks,
                   seen, i, rel, out_path>>

\* after the loop, when a line holds a character the utf-8 codec does not
\* encode: the lines before it are written, and main ends with the
\* UnicodeEncodeError of f.write
WriteRaises ==
    /\ pc = "loop"
    /\ i = Len(tracks)
    /\ lines' = IF gonic_mode THEN GonicHeaders \o lines ELSE lines
    /\ \E k \in 1..Len(lines') : ~Encodable(lines'[k].text)
    /\ file' = [opened |-> TRUE, text |-> Written(lines')]
    /\ pc' = "UnicodeEncodeError"
    /\ UNCHANGED <<strip_after, no_extm3u, gonic_base, output_m3u, xml, tracks,
                   seen, i, rel, out_path>>

Next ==
    \/ Start \/ ParseRaises
    \/ SkipEmpty \/ SkipDuplicate \/ Emit
    \/ Finish \/ WriteRaises

\* ------------------------------------------------------------------------
\* Inputs of the run: the document's tracks and the command line
\* ------------------------------------------------------------------------

MaxTracks == 2

\* a <track> element: its location, title, creator and duration children
Trk(loc, meta) ==
    [location |-> loc, title |-> meta.title, creator |-> meta.creator,
     duration |-> meta.duration]

Meta(title, creator, duration) ==
    [title |-> title, creator |-> creator, duration |-> duration]

\* "file:///Music/a": a file URI under the default anchor
Loc_Uri == Element(<<"f","i","l","e",":","/","/","/","M","u","s","i","c","/","a">>)

\* "C:\Music\a": a bare Windows path, the same file as Loc_Uri
Loc_Win == Element(<<"C",":","\\","M","u","s","i","c","\\","a">>)

\* " file:///x/music%5Cb.c ": padded, a percent-encoded backslash after a
\* lower-case anchor
Loc_Pct == Element(<<" ","f","i","l","e",":","/","/","/","x","/","m","u","s","i","c","%","5","C","b",".","c"," ">>)

\* "/": a path without components
Loc_Root == Element(<<"/">>)

Meta_Both == Meta(Element(<<"T">>), Element(<<"A">>), Element(<<"2","5","0","0">>))

Meta_Title == Meta(Element(<<"T">>), NoElement, Element(<<"2","4","9","9">>))

Meta_Creator == Meta(Element(<<" ">>), Element(<<"A">>), Element(<<"-","2","0","0","0">>))

Meta_None == Meta(NoElement, NoElement, NoElement)

Meta_BadDur == Meta(Element(<<"T">>), Element(<<"A">>), Element(<<"x","1">>))

Meta_HalfBack == Meta(NoElement, Element(<<"A">>), Element(<<"-","5","0","0">>))

Metas == {Meta_Both, Meta_Title, Meta_Creator, Meta_None, Meta_BadDur, Meta_HalfBack}

\* a location element with blank text: a line feed, a tab and a space
Loc_Blank == Element(<<Chr(10), Chr(9), " ">>)

\* "file:///Music/%C3%A9": the escapes of the two UTF-8 bytes of U+00E9
Loc_Acute == Element(<<"f","i","l","e",":","/","/","/","M","u","s","i","c","/","%","C","3","%","A","9">>)

\* "file:///Music/b%C3%0Ac": the escape of a UTF-8 lead byte, then the
\* escape of a line feed instead of its continuation byte
Loc_Cut == Element(<<"f","i","l","e",":","/","/","/","M","u","s","i","c","/","b","%","C","3","%","0","A","c">>)

\* "file://[/a": a network location with an opening bracket only, for
\* which urlparse raises ValueError
Loc_Bracket == Element(<<"f","i","l","e",":","/","/","[","/","a">>)

\* the tracks a document is made of: the file URI with every metadata
\* combination, the other locations without metadata, and tracks without
\* a location
XmlTracks ==
    {Trk(Loc_Uri, m) : m \in Metas}
    \cup {Trk(l, Meta_None) :
             l \in {Loc_Win, Loc_Pct, Loc_Root, Loc_Acute, Loc_Cut,
                    Loc_Bracket}}
    \cup {Trk(NoElement, Meta_Both), Trk(Loc_Blank, Meta_Title)}

XmlDocs == UNION {[1..n -> XmlTracks] : n \in 0..MaxTracks}

\* --gonic values that switch Gonic mode on: "/mnt/", "m//", "C:\m"
GonicBases == {<<"/","m","n","t","/">>, <<"m","/","/">>, <<"C",":","\\","m">>}

\* output file names: "o.m3u", "d/p.l.m3u"
OutputNames == {<<"o",".","m","3","u">>, <<"d","/","p",".","l",".","m","3","u">>}

\* a --gonic value with a byte that is not UTF-8: "/m" and the surrogate
\* U+DC80 the byte 0x80 of an argument becomes
GonicBase_Undecodable == <<"/", "m", Chr(56448)>>

\* the command lines: without --gonic or with an empty one, with and
\* without --strip-after x; with a non-empty --gonic, and for "/mnt/" with
\* each output file name; and with a --gonic the output file cannot hold
CommandLines ==
    [strip_after : {<<>>, <<<<"x">>>>}, no_extm3u : BOOLEAN,
     gonic_base : {None, Some(<<>>)}, output_m3u : {<<"o",".","m","3","u">>}]
    \cup
    [strip_after : {<<>>}, no_extm3u : BOOLEAN,
     gonic_base : {Some(b) : b \in GonicBases},
     output_m3u : {<<"o",".","m","3","u">>}]
    \cup
    [strip_after : {<<>>}, no_extm3u : {TRUE},
     gonic_base : {Some(<<"/","m","n","t","/">>)}, output_m3u : OutputNames]
    \cup
    [strip_after : {<<>>}, no_extm3u : {FALSE},
     gonic_base : {Some(GonicBase_Undecodable)},
     output_m3u : {<<"o",".","m","3","u">>}]

Init ==
    /\ \E c \in CommandLines :
          /\ strip_after = c.strip_after
          /\ no_extm3u = c.no_extm3u
          /\ gonic_base = c.gonic_base
          /\ output_m3u = c.output_m3u
    /\ xml \in XmlDocs
    /\ pc = "start"
    /\ tracks = <<>>
    /\ lines = <<>>
    /\ seen = {}
    /\ i = 0
    /\ rel = <<>>
    /\ out_path = <<>>
    /\ file = NotOpened

Spec == Init /\ [][Next]_vars

\* ------------------------------------------------------------------------
\* strip_to_rel on its own: every path of up to MaxParts components
\* ------------------------------------------------------------------------

MaxParts == 5

\* component names: the two home prefixes, a prefix that differs from one
\* of them in case only, the default anchor, the name U+00E9 (e with
\* acute), and "."
Components ==
    {S_home, S_Users, <<"H","o","m","e">>, S_Music, <<Chr(233)>>, <<".">>}

\* "/" followed by the components joined by "/"
DecodedPath(cs) == <<"/">> \o Join(cs, "/")

\* --strip-after values: none, and U+00C9 (E with acute) then HOME
StripAfterArgs == {<<>>, <<<<Chr(201)>>, <<"H","O","M","E">>>>}

InitResolver ==
    /\ strip_after \in StripAfterArgs
    /\ no_extm3u = FALSE
    /\ gonic_base = None
    /\ output_m3u = <<>>
    /\ xml = <<>>
    /\ pc = "resolve"
    /\ \E n \in 0..MaxParts :
          \E cs \in [1..n -> Components] :
             tracks = <<[path |-> DecodedPath(cs), title |-> <<>>,
                         creator |-> <<>>, duration_s |-> NoDuration]>>
    /\ lines = <<>>
    /\ seen = {}
    /\ i = 0
    /\ rel = <<>>
    /\ out_path = <<>>
    /\ file = NotOpened

\* rel = strip_to_rel(t["path"], anchors=args.anchors)
Resolve ==
    /\ pc = "resolve"
    /\ rel' = strip_to_rel(tracks[1].path, Anchors)
    /\ i' = 1
    /\ pc' = "resolved"
    /\ UNCHANGED <<strip_after, no_extm3u, gonic_base, output_m3u, xml, tracks,
                   lines, seen, out_path, file>>

NextResolver == Resolve

SpecResolver == InitResolver /\ [][NextResolver]_vars

\* ------------------------------------------------------------------------
\* Claims about strip_to_rel (checked under SpecResolver)
\* ------------------------------------------------------------------------

\* the components of the path strip_to_rel was applied to
ResolvedParts == PathParts(tracks[1].path)

\* a component equals some anchor, case-insensitively
MatchesAnchor(c) == \E k \in 1..Len(Anchors) : Lower(c) = Lower(Anchors[k])

HasAnchor(parts) == \E k \in 1..Len(parts) : MatchesAnchor(parts[k])

\* the position of the leftmost component that matches an anchor, 0 when
\* no component matches one
FirstMatch(parts) ==
    LET hits == {k \in 1..Len(parts) : MatchesAnchor(parts[k])}
    IN IF hits = {} THEN 0 ELSE CHOOSE k \in hits : \A h \in hits : k <= h

\* the components after position m
After(parts, m) == SubSeq(parts, m + 1, Len(parts))

\* r is some tail of the component list cs, joined by "/" (the empty tail
\* gives the empty string)
IsJoinedTail(r, cs) ==
    \E j \in 1..(Len(cs) + 1) : r = Join(SubSeq(cs, j, Len(cs)), "/")

\* C1 as stated: whenever a component of the path matches an anchor, the
\* result is built only from components strictly after the first matching
\* one, the case where the match is the last component included.
C1_Original ==
    pc = "resolved"
        => LET parts == ResolvedParts
               m == FirstMatch(parts)
           IN m > 0 => IsJoinedTail(rel, After(parts, m))

\* C1 as amended: when the first matching component is not the last one,
\* the result is built only from the components strictly after it; when it
\* is the last one, the result is that component's own name.
C1_AfterAnchorUnlessLast ==
    pc = "resolved"
        => LET parts == ResolvedParts
               m == FirstMatch(parts)
           IN m > 0
                 => IF m < Len(parts)
                    THEN rel # <<>> /\ IsJoinedTail(rel, After(parts, m))
                    ELSE rel = parts[m]

\* a path with components before and after a component that matches an
\* anchor in another case than the anchor's own
C1_Witness ==
    /\ pc = "resolved"
    /\ HasAnchor(ResolvedParts)
    /\ LET parts == ResolvedParts
           m == FirstMatch(parts)
       IN /\ 1 < m /\ m < Len(parts)
          /\ \A k \in 1..Len(Anchors) : parts[m] # Anchors[k]
          /\ rel = Join(After(parts, m), "/")

\* what the fallback tiers give for a component list
TierResult(parts) ==
    LET d == IF Len(parts) > 2 /\ (parts[1] = S_home \/ parts[1] = S_Users)
             THEN SubSeq(parts, 3, Len(parts)) ELSE parts
        n == Len(d)
    IN CASE n >= 3 -> d[n - 2] \o <<"/">> \o d[n - 1] \o <<"/">> \o d[n]
         [] n = 2 -> d[1] \o <<"/">> \o d[2]
         [] n = 1 -> d[1]
         [] n = 0 -> <<>>

\* C3: for a path none of whose components matches an anchor, the first
\* two components are dropped when there are more than two and the first
\* is exactly "home" or "Users"; the result is then the last three
\* remaining components, both when two remain, the one when one remains,
\* and the empty string when there is none.
C3_FallbackTiers ==
    pc = "resolved"
        => LET parts == ResolvedParts
           IN FirstMatch(parts) = 0 => rel = TierResult(parts)

\* a five-component path under "home" without an anchor: the prefix is
\* dropped and the three components left are the result
C3_Witness ==
    /\ pc = "resolved"
    /\ ~HasAnchor(ResolvedParts)
    /\ LET parts == ResolvedParts
       IN /\ Len(parts) = 5
          /\ parts[1] = S_home
          /\ parts[3] # parts[4]
          /\ rel = Join(SubSeq(parts, 3, 5), "/")

\* the orderings of a list
Orderings(s) ==
    {[k \in 1..Len(s) |-> s[f[k]]] :
        f \in {g \in [1..Len(s) -> 1..Len(s)] :
                  \A a, b \in 1..Len(s) : g[a] = g[b] => a = b}}

\* C4 as stated: the result is the same for every ordering of the anchor
\* list, and whenever a component matches an anchor the whole remainder
\* after the leftmost matching component is returned, however many
\* components it has.
C4_Original ==
    pc = "resolved"
        => LET parts == ResolvedParts
               m == FirstMatch(parts)
           IN /\ \A o \in Orderings(Anchors) : strip_to_rel(tracks[1].path, o) = rel
              /\ m > 0 => rel = Join(After(parts, m), "/")

\* C4 as amended: the result is the same for every ordering of the anchor
\* list, and whenever a component matches an anchor the whole remainder
\* after the leftmost matching component is returned, however many
\* components it has, except that an empty remainder gives the matching
\* component's own name.
C4_LeftmostAnchorDecides ==
    pc = "resolved"
        => LET parts == ResolvedParts
               m == FirstMatch(parts)
           IN /\ \A o \in Orderings(Anchors) : strip_to_rel(tracks[1].path, o) = rel
              /\ m > 0
                    => IF m < Len(parts)
                       THEN rel = Join(After(parts, m), "/")
                       ELSE rel = parts[m]

\* three anchors, the path starts with "home", which matches one of them,
\* and all four components after it are returned
C4_Witness ==
    /\ pc = "resolved"
    /\ Len(Anchors) = 3
    /\ LET parts == ResolvedParts
       IN /\ Len(parts) = 5
          /\ parts[1] = S_home
          /\ HasAnchor(parts)
          /\ FirstMatch(parts) = 1
          /\ \E k \in 3..5 : MatchesAnchor(parts[k])
          /\ rel = Join(SubSeq(parts, 2, 5), "/")

\* ------------------------------------------------------------------------
\* Claims about a run of main (checked under Spec)
\* ------------------------------------------------------------------------

\* the lines of the written text: what stands before each line feed
FileLines ==
    LET segs == Split(file.text, LF)
    IN SubSeq(segs, 1, Len(segs) - 1)

HasLocation(trk) == extract_location(trk.location).some

\* the <track> elements parse_tracks keeps: tracks[j] was built from
\* LocatedXml[j]
LocatedXml == SelectSeq(xml, HasLocation)

\* the relative path and the final output path of the j-th track
RelOf(j) == strip_to_rel(tracks[j].path, Anchors)

FinalOf(j) == OutPath(RelOf(j))

\* the j-th track has a non-empty relative path, and no earlier track with
\* a non-empty relative path has the same final output path
IsFirstOccurrence(j) ==
    /\ RelOf(j) # <<>>
    /\ \A h \in 1..(j - 1) : RelOf(h) # <<>> => FinalOf(h) # FinalOf(j)

\* the tracks consumed so far that survive to the output
Survivors == {j \in 1..i : IsFirstOccurrence(j)}

\* the k-th element of a set of numbers, in increasing order
Nth(S, k) == CHOOSE j \in S : Cardinality({h \in S : h < j}) = k - 1

IsPathLine(l) == l.kind = "PATH"

\* the path lines, in output order
PathLines == SelectSeq(lines, IsPathLine)

\* The same, computed once for a state: the relative and final paths of
\* the tracks consumed so far, the surviving tracks in source order, the
\* texts of the path lines and their positions in lines.
Digest ==
    LET rels == [j \in 1..i |-> RelOf(j)]
        fins == [j \in 1..i |-> OutPath(rels[j])]
        S == {j \in 1..i :
                 /\ rels[j] # <<>>
                 /\ \A h \in 1..(j - 1) : rels[h] # <<>> => fins[h] # fins[j]}
        pos == {p \in 1..Len(lines) : lines[p].kind = "PATH"}
    IN [rel |-> rels,
        final |-> fins,
        survivor |-> [k \in 1..Cardinality(S) |-> Nth(S, k)],
        pathpos |-> [k \in 1..Cardinality(pos) |-> Nth(pos, k)]]

\* C2: once the loop has consumed any number of tracks, no output path
\* occurs twice among the path lines; there is exactly one path line per
\* distinct final output path, that of the first track resolving to it,
\* in the source order of those first tracks; in Extended mode the line
\* before it is the #EXTINF line of that first track.
C2_Deduplicated ==
    pc \in {"loop", "done"}
        => LET d == Digest
               n == Len(d.pathpos)
               PathText(k) == lines[d.pathpos[k]].text
           IN /\ \A a, b \in 1..n : PathText(a) = PathText(b) => a = b
              /\ n = Len(d.survivor)
              /\ \A k \in 1..n :
                    /\ PathText(k) = d.final[d.survivor[k]]
                    /\ extended_mode
                          => /\ d.pathpos[k] > 1
                             /\ lines[d.pathpos[k] - 1]
                                   = ExtInfLine(tracks[d.survivor[k]],
                                                d.rel[d.survivor[k]])
              /\ \A j \in 1..i :
                    d.rel[j] # <<>>
                       => Cardinality({k \in 1..n : PathText(k) = d.final[j]}) = 1

\* two tracks with different locations and different metadata resolve to
\* the same output path; the run is over and the one path line follows the
\* #EXTINF line of the first of them
C2_Witness ==
    /\ pc = "done"
    /\ extended_mode
    /\ Len(tracks) = 2
    /\ tracks[1].path # tracks[2].path
    /\ tracks[1].title # tracks[2].title
    /\ RelOf(1) # <<>>
    /\ FinalOf(1) = FinalOf(2)
    /\ Len(lines) = 3
    /\ lines[2] = ExtInfLine(tracks[1], RelOf(1))
    /\ lines[3].text = FinalOf(1)

\* C7: outside Gonic mode, in Extended mode the first line is #EXTM3U,
\* there is no other, and every surviving track contributes, in source
\* order, one #EXTINF line immediately followed by its path line, 1 + 2n
\* lines for n surviving tracks; in Minimal mode there is exactly one path
\* line per surviving track and no other line.  In every mode a track
\* whose relative path is empty contributes no line.
C7_LineStructure ==
    pc \in {"loop", "done"}
        => LET d == Digest
               n == Len(d.survivor)
           IN /\ extended_mode
                    => /\ Len(lines) = 1 + 2 * n
                       /\ lines[1] = ExtM3ULine
                       /\ \A p \in 2..Len(lines) : lines[p].kind # "EXTM3U"
                       /\ \A k \in 1..n :
                             /\ lines[2 * k].kind = "EXTINF"
                             /\ lines[2 * k + 1]
                                   = Line("PATH", d.final[d.survivor[k]])
              /\ (no_extm3u /\ ~gonic_mode)
                    => /\ Len(lines) = n
                       /\ \A k \in 1..n :
                             lines[k] = Line("PATH", d.final[d.survivor[k]])
              /\ Len(d.pathpos) = n
              /\ \A k \in 1..n : lines[d.pathpos[k]].text # <<>>
              /\ Cardinality({p \in 1..Len(lines) : lines[p].kind \in {"EXTINF", "EXTM3U"}})
                    = IF extended_mode THEN 1 + n ELSE 0

\* an Extended run over two tracks, the first with an empty relative path:
\* the header, then the second track's two lines
C7_Witness ==
    /\ pc = "done"
    /\ extended_mode
    /\ Len(tracks) = 2
    /\ RelOf(1) = <<>>
    /\ Len(FileLines) = 3
    /\ FileLines[1] = T_EXTM3U
    /\ lines[2].kind = "EXTINF"
    /\ FileLines[3] = RelOf(2)

\* the three header lines of a Gonic playlist, for the output file's stem
ExpectedGonicHeader ==
    <<<<"#","G","O","N","I","C","-","N","A","M","E",":","\"">> \o PathStem(output_m3u) \o <<"\"">>,
      <<"#","G","O","N","I","C","-","C","O","M","M","E","N","T",":","\"","\"">>,
      <<"#","G","O","N","I","C","-","I","S","-","P","U","B","L","I","C",":","\"","f","a","l","s","e","\"">>>>

\* the output is the three Gonic header lines, then path lines only, and
\* the file holds them in this order
IsGonicOutput ==
    /\ Len(lines) >= 3
    /\ \A p \in 1..3 : lines[p] = Line("GONIC", ExpectedGonicHeader[p])
    /\ \A p \in 4..Len(lines) : lines[p].kind = "PATH"
    /\ Len(lines) = 3 + Cardinality(Survivors)
    /\ file = [opened |-> TRUE, text |-> Written(lines)]

\* C5 as stated: whenever a --gonic string is supplied, whatever it is and
\* whatever --no-extm3u is, the output is the three #GONIC- header lines
\* followed by path lines only, without #EXTM3U or #EXTINF lines.
C5_GonicWheneverSupplied ==
    (pc = "done" /\ gonic_base.some) => IsGonicOutput

\* What the code does: a non-empty --gonic string gives the Gonic output,
\* an empty one gives the output of a run without --gonic.
GonicOnlyWhenNonEmpty ==
    pc = "done"
        => IF gonic_base.some /\ gonic_base.val # <<>>
           THEN IsGonicOutput
           ELSE \A p \in 1..Len(lines) : lines[p].kind # "GONIC"

\* C6: in Gonic mode every path line is the base without its trailing
\* slashes, one "/", and the track's relative path, which starts with no
\* slash; and the set of seen paths is the set of these prefixed paths.
C6_GonicJoin ==
    (pc \in {"loop", "done"} /\ gonic_mode)
        => LET d == Digest
               b == gonic_base.val
           IN /\ Len(d.pathpos) = Len(d.survivor)
              /\ \A k \in 1..Len(d.pathpos) :
                    LET r == d.rel[d.survivor[k]]
                        t == lines[d.pathpos[k]].text
                    IN \E n \in 0..Len(b) :
                          LET stem == SubSeq(b, 1, Len(b) - n)
                          IN /\ \A c \in (Len(b) - n + 1)..Len(b) : b[c] = "/"
                             /\ stem = <<>> \/ stem[Len(stem)] # "/"
                             /\ r # <<>> /\ r[1] # "/"
                             /\ t = stem \o <<"/">> \o r
              /\ seen = {lines[d.pathpos[k]].text : k \in 1..Len(d.pathpos)}

\* a Gonic run with the base "m//" has written the path line "m/a"
C6_Witness ==
    /\ pc = "done"
    /\ gonic_mode
    /\ gonic_base.val = <<"m", "/", "/">>
    /\ Len(FileLines) = 4
    /\ RelOf(Nth(Survivors, 1)) = <<"a">>
    /\ FileLines[4] = <<"m", "/", "a">>

\* (ms + 500) integer-divided by 1000
Rounded(ms) == (ms + 500) \div 1000

\* the line starts with "#EXTINF:", the number v and a comma
WritesSeconds(line, v) ==
    /\ line.kind = "EXTINF"
    /\ StartsWith(line.text, T_EXTINF \o IntStr(v) \o <<",">>)

\* C8 as stated: in Extended output, a track whose duration parses as an
\* integer ms has (ms + 500) div 1000 written in its #EXTINF line; a track
\* whose duration is absent or does not parse has -1.
C8_Original ==
    (pc \in {"loop", "done"} /\ extended_mode)
        => LET d == Digest
               located == LocatedXml
           IN \A k \in 1..Len(d.survivor) :
                 LET e == located[d.survivor[k]].duration
                 IN WritesSeconds(lines[2 * k],
                                  IF e.present /\ IntParses(e.text)
                                  THEN Rounded(IntVal(e.text)) ELSE -1)

\* C8 as amended: in Extended output, a track whose duration parses as an
\* integer ms has (ms + 500) div 1000 written in its #EXTINF line when
\* that number is not negative, and -1 when it is negative; a track whose
\* duration is absent or does not parse has -1, never 0.
C8_RoundedOrSentinel ==
    (pc \in {"loop", "done"} /\ extended_mode)
        => LET d == Digest
               located == LocatedXml
           IN \A k \in 1..Len(d.survivor) :
                 LET e == located[d.survivor[k]].duration
                 IN WritesSeconds(lines[2 * k],
                                  IF e.present /\ IntParses(e.text)
                                     /\ Rounded(IntVal(e.text)) >= 0
                                  THEN Rounded(IntVal(e.text)) ELSE -1)

\* an Extended run has written 3 seconds for a track of 2500 ms
C8_Witness ==
    /\ pc = "done"
    /\ extended_mode
    /\ 1 \in Survivors
    /\ LocatedXml[1].duration = Element(<<"2","5","0","0">>)
    /\ WritesSeconds(lines[2], 3)
    /\ StartsWith(FileLines[2], <<"#","E","X","T","I","N","F",":","3",",">>)

\* what follows the first comma of a line
AfterComma(text) == Slice(text, Find(text, <<",">>) + 1, Len(text))

\* the final component of a relative path
LastComponent(r) == Split(r, "/")[Len(Split(r, "/"))]

\* C9: the title in a track's #EXTINF line is "<creator> - <title>" when
\* both are non-empty, the title when only the creator is empty, and the
\* final component of the track's relative path when the title is empty,
\* with or without a creator.
C9_DisplayTitle ==
    (pc \in {"loop", "done"} /\ extended_mode)
        => LET d == Digest
           IN \A k \in 1..Len(d.survivor) :
                 LET t == tracks[d.survivor[k]]
                     shown == AfterComma(lines[2 * k].text)
                 IN /\ lines[2 * k].kind = "EXTINF"
                    /\ (t.creator # <<>> /\ t.title # <<>>)
                          => shown = t.creator \o <<" ", "-", " ">> \o t.title
                    /\ (t.creator = <<>> /\ t.title # <<>>) => shown = t.title
                    /\ t.title = <<>>
                          => shown = LastComponent(d.rel[d.survivor[k]])

\* an Extended run has written the file name "a" as the title of a track
\* with a creator and a blank title
C9_Witness ==
    /\ pc = "done"
    /\ extended_mode
    /\ 1 \in Survivors
    /\ tracks[1].creator = <<"A">> /\ tracks[1].title = <<>>
    /\ LocatedXml[1].title.present
    /\ RelOf(1) = <<"a">>
    /\ AfterComma(FileLines[2]) = <<"a">>

\* C10 as stated: no path line of the output contains a backslash, in any
\* output format.
C10_NoBackslash ==
    pc \in {"loop", "done"}
        => \A k \in 1..Len(PathLines) : "\\" \notin Range(PathLines[k].text)

\* What the code does: the relative paths hold no backslash, whatever the
\* location's separators were; a path line holds the backslashes of the
\* --gonic base and no other.
BackslashOnlyFromGonicBase ==
    pc \in {"loop", "done"}
        => /\ \A j \in 1..i : "\\" \notin Range(RelOf(j))
           /\ \A k \in 1..Len(PathLines) :
                 "\\" \in Range(PathLines[k].text)
                    => gonic_mode /\ "\\" \in Range(gonic_base.val)

====
